---- MODULE Spec2Model ----
(***************************************************************************)
(* granola-to-markdown: the incremental sync of sync.py as a state machine.*)
(*                                                                         *)
(* One run of sync() is one step.  The state is what survives between runs *)
(* (the files of the output directory and .sync-state.json) together with  *)
(* what the last run was given and what it did (its cache, options, file   *)
(* operations, counters and whether it raised).  When the process exits    *)
(* only the output directory remains.                                      *)
(*                                                                         *)
(* Spec      : runs on every cache of live documents, with transcripts,    *)
(*             --force and --dry-run, each possibly repeated at once.      *)
(* SpecPlain : runs without options over longer histories, on caches that  *)
(*             may hold deleted or trashed documents.                      *)
(* SpecFresh : the first run on a fresh output directory.                  *)
(* SpecFaulty: a first run, then a run in which the operating system       *)
(*             refuses one file operation.                                 *)
(* SpecTranscripts : a first run that captures transcripts, then runs      *)
(*             without options after the cache has evicted them.           *)
(* SpecExtract, SpecMarks, SpecLists : one call of extract_meeting_data,   *)
(*             of tiptap_to_markdown on a text node and on a list tree; a  *)
(*             Python str is modelled as the sequence of its characters.   *)
(*                                                                         *)
(* Abstractions.  A document is [id, title, updated_at, deleted]; every    *)
(* document falls on the same calendar day, so the base name               *)
(* "{date}_{slug}" is decided by Slugify(title).  A filename is a record   *)
(* [slug, kind, id8]: kind "md" with id8 = NoId8 is "{base}.md", kind "md" *)
(* with an id8 is "{base}_{id[:8]}.md", kind "transcript" is               *)
(* "{base}_transcript.md" (a slug holds no underscore and id[:8] is at     *)
(* most 8 characters long, so the three shapes never coincide), kind "dir" *)
(* is the path os.path.join(output_dir, "") and kind "none" an absent key. *)
(* The content of a file is [id, title, ver, utt]: the fields of the       *)
(* document that build_markdown / the transcript writer put into it.       *)
(***************************************************************************)
EXTENDS Integers, Sequences, FiniteSets, TLC

\* ------------------------------------------------------------------ bounds
NumIds == 2
NumTitles == 2
NumVersions == 2
MaxDocs == 2
MaxUtterances == 1
MaxRuns == 2
MaxPlainRuns == 3
MaxFaultPoint == 4
MaxPanels == 3
MaxMarks == 3
MaxItems == 2
MaxDepth == 3

Ids == 1..NumIds
Titles == 1..NumTitles
Versions == 1..NumVersions
FaultPoints == 1..MaxFaultPoint

\* ------------------------------------------------------------ pure helpers
\* doc_id[:8]: ids 2 and 3 are two ids with the same first eight characters
Id8(id) == (id \div 2) + 1

\* slugify(title) or "untitled": titles 2 and 3 differ only in characters
\* that slugify strips or folds, so they share a slug
Slugify(title) == (title \div 2) + 1

NoId8 == 0
NoVersion == 0

NoName == [slug |-> 0, kind |-> "none", id8 |-> NoId8]
\* os.path.join(output_dir, ""): the output directory itself
DirName == [slug |-> 0, kind |-> "dir", id8 |-> NoId8]

\* f"{base}.md"
OrigFilename(title) == [slug |-> Slugify(title), kind |-> "md", id8 |-> NoId8]
\* f"{base}_{doc_id[:8]}.md"
SuffixedFilename(title, id) == [slug |-> Slugify(title), kind |-> "md", id8 |-> Id8(id)]
\* f"{data['date']}_{slug}_transcript.md"
TranscriptFilename(title) == [slug |-> Slugify(title), kind |-> "transcript", id8 |-> NoId8]

\* build_markdown(data): title, granola_id and updated_at go into the file
NotesContent(doc) == [id |-> doc.id, title |-> doc.title, ver |-> doc.updated_at, utt |-> 0]
\* the transcript file: title, granola_id and the formatted utterances
TranscriptContent(doc, n) == [id |-> doc.id, title |-> doc.title, ver |-> NoVersion, utt |-> n]

\* ------------------------------------------------------------------ inputs
\* deleted: doc.get("deleted_at") or doc.get("was_trashed")
Docs == [id : Ids, title : Titles, updated_at : Versions, deleted : BOOLEAN]
LiveDocs == {doc \in Docs : ~doc.deleted}

DistinctIds(s) == \A i, j \in 1..Len(s) : i # j => s[i].id # s[j].id

\* state["documents"]: an insertion-ordered dict keyed by document id
CachesWithDeleted == {c \in UNION {[1..n -> Docs] : n \in 0..MaxDocs} : DistinctIds(c)}
Caches == {c \in UNION {[1..n -> LiveDocs] : n \in 0..MaxDocs} : DistinctIds(c)}

\* state["transcripts"]: an insertion-ordered dict id -> list of utterances
TranscriptEntries == [id : Ids, utt : 1..MaxUtterances]
TranscriptInputs == {t \in UNION {[1..n -> TranscriptEntries] : n \in 0..MaxDocs} : DistinctIds(t)}

\* ------------------------------------------------------------- dictionaries
\* A dict is a sequence of entries with distinct ids, in insertion order.
HasKey(d, id) == \E i \in 1..Len(d) : d[i].id = id
Lookup(d, id) == d[CHOOSE i \in 1..Len(d) : d[i].id = id]

\* d[e.id] = e : an existing key keeps its place, a new key goes last
Put(d, e) ==
    IF HasKey(d, e.id)
    THEN [i \in 1..Len(d) |-> IF d[i].id = e.id THEN e ELSE d[i]]
    ELSE Append(d, e)

\* the entry {} that sync_state.get(doc_id, {}) returns for a missing key
EmptyEntry(id) ==
    [id |-> id, updated_at |-> NoVersion, filename |-> NoName,
     transcript_saved |-> FALSE, transcript_filename |-> NoName]

\* `if prev`: a dict with at least one key
Truthy(e) ==
    \/ e.updated_at # NoVersion
    \/ e.filename # NoName
    \/ e.transcript_saved
    \/ e.transcript_filename # NoName

Get(d, id) == IF HasKey(d, id) THEN Lookup(d, id) ELSE EmptyEntry(id)

\* ------------------------------------------------------------- file system
Exists(fs, name) == name = DirName \/ name \in DOMAIN fs
WriteFile(fs, name, content) ==
    [n \in (DOMAIN fs) \cup {name} |-> IF n = name THEN content ELSE fs[n]]
RemoveFile(fs, name) == [n \in (DOMAIN fs) \ {name} |-> fs[n]]
NoFiles == [n \in {} |-> NoName]

\* ------------------------------------------------------ first pass (380-385)
\* all_data: the documents that are neither deleted nor trashed, in order
AllData(cache) == SelectSeq(cache, LAMBDA doc : ~doc.deleted)
InAllData(all, id) == \E i \in 1..Len(all) : all[i].id = id
DataOf(all, id) == all[CHOOSE i \in 1..Len(all) : all[i].id = id]

\* ------------------------------------------------ filename assignment (387-407)
\* filename_counts.get(name, 0)
CountOf(counts, name) == IF name \in DOMAIN counts THEN counts[name] ELSE 0

\* The first loop: the first document of a base name takes "{base}.md", each
\* later one is counted and takes the id-suffixed name.
RECURSIVE FirstPass(_, _, _, _)
FirstPass(all, i, filenames, filename_counts) ==
    IF i > Len(all)
    THEN [filenames |-> filenames, filename_counts |-> filename_counts]
    ELSE LET doc == all[i]
             filename == OrigFilename(doc.title)
         IN IF filename \in DOMAIN filename_counts
            THEN FirstPass(all, i + 1,
                     Append(filenames, [id |-> doc.id,
                                        filename |-> SuffixedFilename(doc.title, doc.id)]),
                     [filename_counts EXCEPT ![filename] = @ + 1])
            ELSE FirstPass(all, i + 1,
                     Append(filenames, [id |-> doc.id, filename |-> filename]),
                     [n \in (DOMAIN filename_counts) \cup {filename} |->
                         IF n = filename THEN 1 ELSE filename_counts[n]])

\* "Handle collisions for the first occurrence too" dropped: the single-pass bug
SecondPassSkipped(all, first) == first.filenames

\* The second loop: a document still holding "{base}.md" of a shared base
\* name is suffixed too.
SecondPass(all, first) ==
    [i \in 1..Len(all) |->
        LET orig_filename == OrigFilename(all[i].title)
        IN IF /\ CountOf(first.filename_counts, orig_filename) > 1
              /\ first.filenames[i].filename = orig_filename
           THEN [id |-> all[i].id, filename |-> SuffixedFilename(all[i].title, all[i].id)]
           ELSE first.filenames[i]]

NoCounts == [n \in {} |-> 0]
AssignFilenames(all) == SecondPass(all, FirstPass(all, 1, <<>>, NoCounts))

\* filenames[doc_id]
FilenameOf(filenames, id) ==
    filenames[CHOOSE i \in 1..Len(filenames) : filenames[i].id = id].filename

\* --------------------------------------------------- the run's local state
\* fs: the output directory as the run has left it so far; ops: the file
\* operations performed so far (os.remove, open(..., "w")), in order;
\* error: the exception that ended the run, "none" while it is running;
\* fail_at: the position, among the run's file operations, of the one the
\* operating system refuses (NoFault: it refuses none).
NoFault == 0

StartRun(fs) ==
    [fs |-> fs, new_sync_state |-> <<>>, ops |-> <<>>,
     created |-> 0, updated |-> 0, skipped |-> 0, removed |-> 0,
     transcripts_saved |-> 0, error |-> "none", fail_at |-> NoFault]

Op(op, name, id) == [op |-> op, name |-> name, id |-> id]

\* the file operation the run is about to make is the one that raises
FailsNow(rs) == Len(rs.ops) + 1 = rs.fail_at

\* os.remove or open(..., "w") raises OSError: the operation op was attempted,
\* the directory is as it was, and the exception leaves sync()
Failed(rs, op) == [rs EXCEPT !.ops = Append(@, op), !.error = "OSError"]

\* ------------------------------------------- "Sync each document" (415-456)
\* the entry written for a new or changed document
NewEntry(doc, filename) ==
    [id |-> doc.id, updated_at |-> doc.updated_at, filename |-> filename,
     transcript_saved |-> FALSE, transcript_filename |-> NoName]

\* lines 425-434: remove the file of the old name
CleanUpOld(rs, prev, filename, dry_run) ==
    IF /\ prev.filename # NoName
       /\ prev.filename # filename
       /\ Exists(rs.fs, prev.filename)
       /\ ~dry_run
    THEN IF FailsNow(rs)
         THEN Failed(rs, Op("remove_old", prev.filename, prev.id))
         ELSE [rs EXCEPT !.fs = RemoveFile(@, prev.filename),
                         !.ops = Append(@, Op("remove_old", prev.filename, prev.id))]
    ELSE rs

\* the file is written in a dry run too
WriteNotesInDryRun(rs, prev, doc, filename, dry_run) ==
    [rs EXCEPT !.fs = WriteFile(@, filename, NotesContent(doc)),
               !.ops = Append(@, Op("write", filename, doc.id)),
               !.updated = IF Truthy(prev) THEN @ + 1 ELSE @,
               !.created = IF Truthy(prev) THEN @ ELSE @ + 1]

\* lines 436-451: write the file and count it
WriteNotes(rs, prev, doc, filename, dry_run) ==
    IF dry_run
    THEN rs
    ELSE IF FailsNow(rs)
         THEN Failed(rs, Op("write", filename, doc.id))
         ELSE [rs EXCEPT !.fs = WriteFile(@, filename, NotesContent(doc)),
                         !.ops = Append(@, Op("write", filename, doc.id)),
                         !.updated = IF Truthy(prev) THEN @ + 1 ELSE @,
                         !.created = IF Truthy(prev) THEN @ ELSE @ + 1]

\* one iteration of the loop of line 415; an exception ends the loop
SyncDoc(rs, doc, filename, sync_state, force, dry_run) ==
    LET prev == Get(sync_state, doc.id)
    IN IF rs.error # "none"
       THEN rs
       ELSE IF ~force /\ prev.updated_at = doc.updated_at
       THEN [rs EXCEPT !.new_sync_state = Put(@, prev), !.skipped = @ + 1]
       ELSE LET cleaned == CleanUpOld(rs, prev, filename, dry_run)
                written == IF cleaned.error # "none"
                           THEN cleaned
                           ELSE WriteNotes(cleaned, prev, doc, filename, dry_run)
            IN IF written.error # "none"
               THEN written
               ELSE [written EXCEPT !.new_sync_state = Put(@, NewEntry(doc, filename))]

RECURSIVE SyncDocs(_, _, _, _, _, _, _)
SyncDocs(rs, all, i, filenames, sync_state, force, dry_run) ==
    IF i > Len(all)
    THEN rs
    ELSE SyncDocs(SyncDoc(rs, all[i], FilenameOf(filenames, all[i].id),
                          sync_state, force, dry_run),
                  all, i + 1, filenames, sync_state, force, dry_run)

\* ------------------------------------------- "Export transcripts" (458-496)
\* lines 486-496: mark the transcript as saved in the new state
MarkSaved(new_sync_state, doc, filenames, transcript_filename) ==
    IF HasKey(new_sync_state, doc.id)
    THEN Put(new_sync_state,
             [Lookup(new_sync_state, doc.id) EXCEPT
                 !.transcript_saved = TRUE,
                 !.transcript_filename = transcript_filename])
    ELSE Put(new_sync_state,
             [id |-> doc.id, updated_at |-> doc.updated_at,
              filename |-> FilenameOf(filenames, doc.id),
              transcript_saved |-> TRUE,
              transcript_filename |-> transcript_filename])

\* one iteration of the loop of line 460; an exception ends the loop
ExportTranscript(rs, t, all, filenames, sync_state, dry_run) ==
    IF rs.error # "none" \/ t.utt = 0 \/ ~InAllData(all, t.id)
    THEN rs
    ELSE LET prev == IF HasKey(rs.new_sync_state, t.id)
                     THEN Lookup(rs.new_sync_state, t.id)
                     ELSE Get(sync_state, t.id)
             doc == DataOf(all, t.id)
             transcript_filename == TranscriptFilename(doc.title)
             saved == [rs EXCEPT
                 !.transcripts_saved = @ + 1,
                 !.new_sync_state = MarkSaved(@, doc, filenames, transcript_filename)]
         IN IF prev.transcript_saved
            THEN rs
            ELSE IF dry_run
                 THEN saved
                 ELSE IF FailsNow(rs)
                 THEN Failed(rs, Op("write_transcript", transcript_filename, doc.id))
                 ELSE [saved EXCEPT
                     !.fs = WriteFile(@, transcript_filename, TranscriptContent(doc, t.utt)),
                     !.ops = Append(@, Op("write_transcript", transcript_filename, doc.id))]

RECURSIVE ExportTranscripts(_, _, _, _, _, _, _)
ExportTranscripts(rs, transcripts, i, all, filenames, sync_state, dry_run) ==
    IF i > Len(transcripts)
    THEN rs
    ELSE ExportTranscripts(
             ExportTranscript(rs, transcripts[i], all, filenames, sync_state, dry_run),
             transcripts, i + 1, all, filenames, sync_state, dry_run)

\* ---------------------------------- "Clean up files for documents no longer
\* in cache" (498-516)
Tombstone(prev) ==
    [id |-> prev.id, updated_at |-> NoVersion, filename |-> NoName,
     transcript_saved |-> TRUE, transcript_filename |-> prev.transcript_filename]

\* lines 503-510.  prev.get("filename", "") of an entry without a filename is
\* "", whose path is the output directory: it exists, os.remove raises on it
\* (IsADirectoryError / PermissionError) and the dry run's message raises
\* KeyError on prev['filename'].
RemoveOrphanFile(rs, prev, dry_run) ==
    LET old_path == IF prev.filename = NoName THEN DirName ELSE prev.filename
    IN IF ~Exists(rs.fs, old_path)
       THEN rs
       ELSE IF dry_run
            THEN IF prev.filename = NoName
                 THEN [rs EXCEPT !.error = "KeyError"]
                 ELSE [rs EXCEPT !.removed = @ + 1]
            ELSE IF old_path = DirName \/ FailsNow(rs)
                 THEN Failed(rs, Op("remove_orphan", old_path, prev.id))
                 ELSE [rs EXCEPT !.fs = RemoveFile(@, old_path),
                                 !.ops = Append(@, Op("remove_orphan", old_path, prev.id)),
                                 !.removed = @ + 1]

\* lines 511-516
PreserveTranscriptState(rs, prev) ==
    IF prev.transcript_saved
    THEN [rs EXCEPT !.new_sync_state = Put(@, Tombstone(prev))]
    ELSE rs

\* one iteration of the loop of line 501
CleanUpOrphan(rs, prev, all, dry_run) ==
    IF rs.error # "none" \/ InAllData(all, prev.id)
    THEN rs
    ELSE LET removed == RemoveOrphanFile(rs, prev, dry_run)
         IN IF removed.error # "none"
            THEN removed
            ELSE PreserveTranscriptState(removed, prev)

RECURSIVE CleanUpOrphans(_, _, _, _, _)
CleanUpOrphans(rs, sync_state, i, all, dry_run) ==
    IF i > Len(sync_state)
    THEN rs
    ELSE CleanUpOrphans(CleanUpOrphan(rs, sync_state[i], all, dry_run),
                        sync_state, i + 1, all, dry_run)

\* ------------------------------------------------------ the persisted state
NoStateFile == [exists |-> FALSE, entries |-> <<>>]

\* load_sync_state: {} when the file is absent
LoadSyncState(state_file) == IF state_file.exists THEN state_file.entries ELSE <<>>

\* line 375: force starts from an empty state
InitialSyncState(state_file, f) == IF f THEN <<>> ELSE LoadSyncState(state_file)

\* the state is saved though a file operation raised
SaveSyncStateAfterError(state_file, rs, dry_run) ==
    IF ~dry_run
    THEN [exists |-> TRUE, entries |-> rs.new_sync_state]
    ELSE state_file

\* lines 518-519 and save_sync_state: reached only when nothing raised
SaveSyncState(state_file, rs, dry_run) ==
    IF rs.error = "none" /\ ~dry_run
    THEN [exists |-> TRUE, entries |-> rs.new_sync_state]
    ELSE state_file

\* --------------------------------------------------------------- sync()
\* n: the file operation that raises, NoFault when none does
RunSync(state_file, fs, c, t, f, d, n) ==
    LET sync_state == InitialSyncState(state_file, f)
        all == AllData(c)
        names == AssignFilenames(all)
        start == [StartRun(fs) EXCEPT !.fail_at = n]
        synced == SyncDocs(start, all, 1, names, sync_state, f, d)
        exported == ExportTranscripts(synced, t, 1, all, names, sync_state, d)
    IN CleanUpOrphans(exported, sync_state, 1, all, d)

\* "Sync complete: ..." (521-528)
Summary(rs) ==
    [created |-> rs.created, updated |-> rs.updated, unchanged |-> rs.skipped,
     removed |-> rs.removed, transcripts_saved |-> rs.transcripts_saved]

\* ------------------------------------------------------------ str methods
\* A Python str is the sequence of its characters.
Newline == <<"\n">>
Whitespace == {" ", "\n"}
\* the grave accent, the character of Markdown code spans and fences
Backtick == "GRAVE"

\* "".join(parts)
RECURSIVE Concat(_)
Concat(parts) == IF parts = <<>> THEN <<>> ELSE Head(parts) \o Concat(Tail(parts))

\* sep.join(parts)
RECURSIVE JoinWith(_, _)
JoinWith(sep, parts) ==
    IF parts = <<>>
    THEN <<>>
    ELSE IF Len(parts) = 1
         THEN parts[1]
         ELSE parts[1] \o sep \o JoinWith(sep, Tail(parts))

RECURSIVE LStrip(_)
LStrip(str) == IF str # <<>> /\ Head(str) \in Whitespace THEN LStrip(Tail(str)) ELSE str

RECURSIVE RStrip(_)
RStrip(str) ==
    IF str # <<>> /\ str[Len(str)] \in Whitespace
    THEN RStrip(SubSeq(str, 1, Len(str) - 1))
    ELSE str

\* str.strip()
Strip(str) == RStrip(LStrip(str))

\* str * n
RECURSIVE Times(_, _)
Times(str, n) == IF n <= 0 THEN <<>> ELSE str \o Times(str, n - 1)

\* str(n) of a natural number
RECURSIVE Decimal(_)
Decimal(n) ==
    LET digit == <<"0", "1", "2", "3", "4", "5", "6", "7", "8", "9">>[(n % 10) + 1]
    IN IF n < 10 THEN <<digit>> ELSE Decimal(n \div 10) \o <<digit>>

\* dict.get(key, default)
DictGet(d, key, default) == IF key \in DOMAIN d THEN d[key] ELSE default

EmptyDict == <<>>

\* ---------------------------------------------------- tiptap_to_markdown()
\* lines 86-95: one mark wraps the text so far; a mark of another type
\* leaves it as it is
ApplyMark(text, mark) ==
    LET mtype == DictGet(mark, "type", "")
    IN CASE mtype = "bold" -> <<"*", "*">> \o text \o <<"*", "*">>
         [] mtype = "italic" -> <<"*">> \o text \o <<"*">>
         [] mtype = "link" ->
                LET href == DictGet(DictGet(mark, "attrs", EmptyDict), "href", <<>>)
                IN <<"[">> \o text \o <<"]", "(">> \o href \o <<")">>
         [] mtype = "code" -> <<Backtick>> \o text \o <<Backtick>>
         [] OTHER -> text

\* the marks are applied from the last to the first
RECURSIVE ApplyMarksBackwards(_, _, _)
ApplyMarksBackwards(text, marks, i) ==
    IF i > Len(marks)
    THEN text
    ELSE ApplyMark(ApplyMarksBackwards(text, marks, i + 1), marks[i])

\* the loop of line 85, from its i-th iteration on
RECURSIVE ApplyMarks(_, _, _)
ApplyMarks(text, marks, i) ==
    IF i > Len(marks)
    THEN text
    ELSE ApplyMarks(ApplyMark(text, marks[i]), marks, i + 1)

\* ordered_num=None
NoNum == 0

\* line 73
Marker(ordered_num) ==
    IF ordered_num # NoNum THEN Decimal(ordered_num) \o <<".">> ELSE <<"-">>

\* every item starts at the left margin
NoPrefix(indent) == <<>>

\* line 72
Prefix(indent) == Times(<<" ", " ">>, indent)

IsList(node) == DictGet(node, "type", "") \in {"bulletList", "orderedList"}

\* "> " before every line of str
RECURSIVE Quote(_)
Quote(str) ==
    IF str = <<>>
    THEN <<>>
    ELSE IF Head(str) = "\n"
         THEN <<"\n", ">", " ">> \o Quote(Tail(str))
         ELSE <<Head(str)>> \o Quote(Tail(str))

RECURSIVE TiptapToMarkdown(_, _, _)
TiptapToMarkdown(node, indent, ordered_num) ==
    LET ntype == DictGet(node, "type", "")
        content == DictGet(node, "content", <<>>)
        attrs == DictGet(node, "attrs", EmptyDict)
        \* tiptap_to_markdown(c) for c in content
        children == [i \in 1..Len(content) |-> TiptapToMarkdown(content[i], 0, NoNum)]
    IN CASE ntype = "doc" -> Strip(JoinWith(Newline, children))
         [] ntype = "heading" ->
                Newline \o Times(<<"#">>, DictGet(attrs, "level", 1)) \o <<" ">>
                    \o Concat(children) \o Newline
         [] ntype = "paragraph" ->
                IF indent > 0
                THEN Concat(children)
                ELSE Newline \o Concat(children) \o Newline
         [] ntype = "bulletList" ->
                JoinWith(Newline,
                    [i \in 1..Len(content) |-> TiptapToMarkdown(content[i], indent, NoNum)])
         [] ntype = "orderedList" ->
                JoinWith(Newline,
                    [i \in 1..Len(content) |-> TiptapToMarkdown(content[i], indent, i)])
         [] ntype = "listItem" ->
                LET parts == SelectSeq(content, LAMBDA c : ~IsList(c))
                    sub_lists == SelectSeq(content, IsList)
                    text == Strip(Concat(
                        [i \in 1..Len(parts) |-> TiptapToMarkdown(parts[i], indent, NoNum)]))
                    result == Prefix(indent) \o Marker(ordered_num) \o <<" ">> \o text
                IN result \o Concat(
                       [i \in 1..Len(sub_lists) |->
                           Newline \o TiptapToMarkdown(sub_lists[i], indent + 1, NoNum)])
         [] ntype = "text" ->
                ApplyMarks(DictGet(node, "text", <<>>), DictGet(node, "marks", <<>>), 1)
         [] ntype = "horizontalRule" -> <<"\n", "-", "-", "-", "\n">>
         [] ntype = "hardBreak" -> Newline
         [] ntype = "codeBlock" ->
                <<"\n", Backtick, Backtick, Backtick>> \o DictGet(attrs, "language", <<>>) \o Newline
                    \o Concat(children) \o <<"\n", Backtick, Backtick, Backtick, "\n">>
         [] ntype = "blockquote" ->
                <<"\n", ">", " ">> \o Quote(Strip(Concat(children))) \o Newline
         [] OTHER ->
                Concat([i \in 1..Len(content) |-> TiptapToMarkdown(content[i], indent, NoNum)])

\* the JSON of the nodes
Text(str) == [type |-> "text", text |-> str]
MarkedText(str, marks) == [type |-> "text", text |-> str, marks |-> marks]
Paragraph(content) == [type |-> "paragraph", content |-> content]
ListItem(content) == [type |-> "listItem", content |-> content]
ListOf(ntype, items) == [type |-> ntype, content |-> items]
Doc(content) == [type |-> "doc", content |-> content]

\* the marks of a text node: a link may lack its attrs, and a mark may be of
\* a type the converter does not know
Bold == [type |-> "bold"]
LinkTo(href) == [type |-> "link", attrs |-> [href |-> href]]
Marks ==
    {Bold, [type |-> "italic"], [type |-> "code"], LinkTo(<<"x">>),
     [type |-> "link"], [type |-> "underline"]}

MarkInputs == UNION {[1..n -> Marks] : n \in 0..MaxMarks}

TheText == <<"t", "e", "x", "t">>

\* the list trees: a list of one of the two types with up to MaxItems
\* items, one of which may carry a nested list, down to MaxDepth levels.  The
\* text of an item is one run in one paragraph, with spaces around it in
\* the items that carry a list.
ListTypes == {"bulletList", "orderedList"}
PlainItem == ListItem(<<Paragraph(<<Text(<<"a">>)>>)>>)
NestingItem(sub) == ListItem(<<Paragraph(<<Text(<<" ", "b", " ">>)>>), sub>>)
ItemPositions == {kp \in (1..MaxItems) \X (1..MaxItems) : kp[2] <= kp[1]}

RECURSIVE ListTrees(_)
ListTrees(depth) ==
    LET flat == {ListOf(t, [i \in 1..k |-> PlainItem]) : t \in ListTypes, k \in 1..MaxItems}
    IN IF depth <= 1
       THEN flat
       ELSE flat \cup
            {ListOf(t, [i \in 1..kp[1] |-> IF i = kp[2] THEN NestingItem(sub) ELSE PlainItem]) :
                t \in ListTypes, kp \in ItemPositions, sub \in ListTrees(depth - 1)}

\* ------------------------------------------------ html_to_basic_markdown()
\* The markup is the sequence of its tags and of the characters between
\* them; every re.sub of lines 227-237 rewrites one tag.
ConvertTag(tok) ==
    CASE tok = "<h3>" -> <<"\n", "#", "#", "#", " ">>
      [] tok = "</h3>" -> Newline
      [] tok = "<li>" -> <<"-", " ">>
      [] tok \in {"</li>", "<p>", "</p>"} -> Newline
      [] tok \in {"<strong>", "</strong>"} -> <<"*", "*">>
      [] tok \in {"<em>", "</em>"} -> <<"*">>
      [] tok \in {"<ul>", "</ul>", "<br>"} -> <<>>
      [] OTHER -> <<tok>>

\* line 238: three or more newlines become two
RECURSIVE CollapseNewlines(_)
CollapseNewlines(str) ==
    IF Len(str) >= 3 /\ str[1] = "\n" /\ str[2] = "\n" /\ str[3] = "\n"
    THEN CollapseNewlines(Tail(str))
    ELSE IF str = <<>>
         THEN <<>>
         ELSE <<Head(str)>> \o CollapseNewlines(Tail(str))

HtmlToBasicMarkdown(html) ==
    Strip(CollapseNewlines(Concat([i \in 1..Len(html) |-> ConvertTag(html[i])])))

\* ------------------------------------------------ extract_meeting_data()

\* the titles a document of the cache may carry
RawTitles == {"", "Weekly Sync", "Untitled Meeting"}

\* the documents of the cache as loaded from JSON: the title key may be absent
RawDocs == {[id |-> 1]} \cup {[id |-> 1, title |-> t] : t \in RawTitles}

\* line 157
ExtractTitle(doc) == DictGet(doc, "title", "Untitled Meeting")

\* the rich-text trees a panel may expose
PanelTrees ==
    {Doc(<<Paragraph(<<Text(<<"s">>)>>)>>),
     Doc(<<ListOf("bulletList", <<ListItem(<<Paragraph(<<Text(<<"t">>)>>)>>)>>)>>)}

\* the raw markups a panel may carry; the second converts to the empty string
Htmls == {<<"<p>", "a", "</p>">>, <<"<br>">>}

PanelContents == {EmptyDict} \cup PanelTrees
OriginalContents == {<<>>} \cup Htmls

\* the panels of the cache: either key may be absent
Panels ==
    {EmptyDict}
        \cup {[content |-> c] : c \in PanelContents}
        \cup {[original_content |-> h] : h \in OriginalContents}
        \cup {[content |-> c, original_content |-> h] :
                  c \in PanelContents, h \in OriginalContents}

\* doc_panels.items(), in insertion order
PanelInputs == UNION {[1..n -> Panels] : n \in 0..MaxPanels}

\* the loop goes on after a panel with a tree
RECURSIVE SummaryWithoutBreak(_, _, _)
SummaryWithoutBreak(panels, i, summary_md) ==
    IF i > Len(panels)
    THEN summary_md
    ELSE LET panel == panels[i]
             panel_content == DictGet(panel, "content", EmptyDict)
             html == DictGet(panel, "original_content", <<>>)
         IN IF panel_content # EmptyDict
            THEN SummaryWithoutBreak(panels, i + 1,
                     Strip(TiptapToMarkdown(panel_content, 0, NoNum)))
            ELSE SummaryWithoutBreak(panels, i + 1,
                     IF html # <<>> /\ summary_md = <<>>
                     THEN HtmlToBasicMarkdown(html)
                     ELSE summary_md)

\* the loop of line 199, from its i-th iteration on.  A content that is
\* absent (None) or {} is falsy.
RECURSIVE ExtractSummary(_, _, _)
ExtractSummary(panels, i, summary_md) ==
    IF i > Len(panels)
    THEN summary_md
    ELSE LET panel == panels[i]
             panel_content == DictGet(panel, "content", EmptyDict)
             html == DictGet(panel, "original_content", <<>>)
         IN IF panel_content # EmptyDict
            THEN Strip(TiptapToMarkdown(panel_content, 0, NoNum))
            ELSE ExtractSummary(panels, i + 1,
                     IF html # <<>> /\ summary_md = <<>>
                     THEN HtmlToBasicMarkdown(html)
                     ELSE summary_md)

\* lines 154-221: the fields of the returned record that are modelled
ExtractMeetingData(doc, panels) ==
    [id |-> doc.id, title |-> ExtractTitle(doc),
     summary |-> ExtractSummary(panels, 1, <<>>)]

\* ------------------------------------------------------------------- state
VARIABLES
    files,        \* the notes and transcript files of the output directory
    stateFile,    \* .sync-state.json
    pc,           \* "idle": no run in progress; "done": a run has just ended
    cache,        \* the documents the last run loaded
    transcripts,  \* the transcripts the last run loaded
    force,        \* the last run's --force
    dry_run,      \* the last run's --dry-run
    filenames,    \* the filenames the last run assigned
    ops,          \* the file operations the last run performed, in order
    summary,      \* the counters of the last run
    error,        \* the exception that ended the last run, or "none"
    prior,        \* the files and the state file as the last run found them
    repeat,       \* the last run repeated the run before it on the same cache
    first,        \* when repeat: the options and outcome of the run before it
    runs,         \* the number of runs so far
    given,        \* the arguments of the last call of a helper function
    result        \* what that call returned

vars == <<files, stateFile, pc, cache, transcripts, force, dry_run, filenames,
          ops, summary, error, prior, repeat, first, runs, given, result>>

\* the variables of sync()
syncVars == <<files, stateFile, pc, cache, transcripts, force, dry_run, filenames,
              ops, summary, error, prior, repeat, first, runs>>

NoSummary == Summary(StartRun(NoFiles))
NoFirst == [dry_run |-> FALSE, summary |-> NoSummary, error |-> "none"]
NoPrior == [files |-> NoFiles, stateFile |-> NoStateFile]
NoCall == [called |-> "none"]

Init ==
    /\ files = NoFiles
    /\ stateFile = NoStateFile
    /\ pc = "idle"
    /\ cache = <<>>
    /\ transcripts = <<>>
    /\ force = FALSE
    /\ dry_run = FALSE
    /\ filenames = <<>>
    /\ ops = <<>>
    /\ summary = NoSummary
    /\ error = "none"
    /\ prior = NoPrior
    /\ repeat = FALSE
    /\ first = NoFirst
    /\ runs = 0
    /\ given = NoCall
    /\ result = NoCall

\* one call of sync() on the cache c with transcripts t, --force f, --dry-run d,
\* in which the n-th file operation raises
Run(c, t, f, d, n) ==
    /\ LET rs == RunSync(stateFile, files, c, t, f, d, n)
       IN /\ files' = rs.fs
          /\ stateFile' = SaveSyncState(stateFile, rs, d)
          /\ ops' = rs.ops
          /\ summary' = Summary(rs)
          /\ error' = rs.error
    /\ pc' = "done"
    /\ cache' = c
    /\ transcripts' = t
    /\ force' = f
    /\ dry_run' = d
    /\ filenames' = AssignFilenames(AllData(c))
    /\ prior' = [files |-> files, stateFile |-> stateFile]
    /\ runs' = runs + 1
    /\ UNCHANGED <<given, result>>

\* The command is started on whatever the cache holds now.
Sync(c, t, f, d) ==
    /\ pc = "idle"
    /\ runs < MaxRuns
    /\ Run(c, t, f, d, NoFault)
    /\ repeat' = FALSE
    /\ first' = NoFirst

\* The command is started without options on a cache whose transcripts are
\* gone and that may hold deleted or trashed documents.
PlainSync(c) ==
    /\ pc = "idle"
    /\ runs < MaxPlainRuns
    /\ Run(c, <<>>, FALSE, FALSE, NoFault)
    /\ repeat' = FALSE
    /\ first' = NoFirst

\* The command is started without options on an output directory that holds
\* no state file yet.
FreshSync(c) ==
    /\ pc = "idle"
    /\ ~stateFile.exists
    /\ Run(c, <<>>, FALSE, FALSE, NoFault)
    /\ repeat' = FALSE
    /\ first' = NoFirst

\* The command is started again right after a run, on the unchanged cache,
\* with the same --force and without --dry-run.
Resync ==
    /\ pc = "done"
    /\ ~repeat
    /\ Run(cache, transcripts, force, FALSE, NoFault)
    /\ repeat' = TRUE
    /\ first' = [dry_run |-> dry_run, summary |-> summary, error |-> error]

\* The process is gone: only the output directory and its state file remain.
Exit ==
    /\ pc = "done"
    /\ pc' = "idle"
    /\ cache' = <<>>
    /\ transcripts' = <<>>
    /\ force' = FALSE
    /\ dry_run' = FALSE
    /\ filenames' = <<>>
    /\ ops' = <<>>
    /\ summary' = NoSummary
    /\ error' = "none"
    /\ prior' = NoPrior
    /\ repeat' = FALSE
    /\ first' = NoFirst
    /\ UNCHANGED <<files, stateFile, runs, given, result>>

\* a run on some cache, with some transcripts and options
SomeSync ==
    /\ pc = "idle"
    /\ \E c \in Caches, t \in TranscriptInputs, f \in BOOLEAN, d \in BOOLEAN : Sync(c, t, f, d)

Next ==
    \/ SomeSync
    \/ Resync
    \/ Exit

Spec == Init /\ [][Next]_vars

\* Plain runs only, over longer histories.
SomePlainSync ==
    /\ pc = "idle"
    /\ \E c \in CachesWithDeleted : PlainSync(c)

NextPlain ==
    \/ SomePlainSync
    \/ Resync
    \/ Exit

SpecPlain == Init /\ [][NextPlain]_vars

\* The first run on a fresh output directory, over every cache.
SomeFreshSync ==
    /\ pc = "idle"
    /\ ~stateFile.exists
    /\ \E c \in CachesWithDeleted : FreshSync(c)

NextFresh ==
    \/ SomeFreshSync
    \/ Exit

SpecFresh == Init /\ [][NextFresh]_vars

\* The command is started, without --dry-run, on an output directory an
\* earlier run has left, and the operating system refuses its n-th file
\* operation (none when the run makes fewer).
FaultySync(c, t, f, n) ==
    /\ pc = "idle"
    /\ stateFile.exists
    /\ runs < MaxRuns
    /\ Run(c, t, f, FALSE, n)
    /\ repeat' = FALSE
    /\ first' = NoFirst

SomeFaultySync ==
    /\ pc = "idle"
    /\ stateFile.exists
    /\ runs < MaxRuns
    /\ \E c \in Caches, t \in TranscriptInputs, f \in BOOLEAN, n \in FaultPoints :
          FaultySync(c, t, f, n)

NextFaulty ==
    \/ SomeFreshSync
    \/ SomeFaultySync
    \/ Exit

SpecFaulty == Init /\ [][NextFaulty]_vars

\* The command is started without options on a fresh output directory while
\* the cache still holds transcripts.
TranscriptSync(c, t) ==
    /\ pc = "idle"
    /\ ~stateFile.exists
    /\ Run(c, t, FALSE, FALSE, NoFault)
    /\ repeat' = FALSE
    /\ first' = NoFirst

SomeTranscriptSync ==
    /\ pc = "idle"
    /\ ~stateFile.exists
    /\ \E c \in Caches, t \in TranscriptInputs : TranscriptSync(c, t)

\* The command is started without options on a later day, when the cache has
\* evicted the transcripts.
LaterSync(c) ==
    /\ pc = "idle"
    /\ stateFile.exists
    /\ runs < MaxPlainRuns
    /\ Run(c, <<>>, FALSE, FALSE, NoFault)
    /\ repeat' = FALSE
    /\ first' = NoFirst

SomeLaterSync ==
    /\ pc = "idle"
    /\ stateFile.exists
    /\ runs < MaxPlainRuns
    /\ \E c \in Caches : LaterSync(c)

NextTranscripts ==
    \/ SomeTranscriptSync
    \/ SomeLaterSync
    \/ Exit

SpecTranscripts == Init /\ [][NextTranscripts]_vars

\* extract_meeting_data is called on a document of the cache and its panels
Extract(doc, panels) ==
    /\ given = NoCall
    /\ given' = [called |-> "extract_meeting_data", doc |-> doc, panels |-> panels]
    /\ result' = ExtractMeetingData(doc, panels)
    /\ UNCHANGED syncVars

SomeExtract ==
    /\ given = NoCall
    /\ \E doc \in RawDocs, panels \in PanelInputs : Extract(doc, panels)

NextExtract == SomeExtract

SpecExtract == Init /\ [][NextExtract]_vars

\* tiptap_to_markdown is called on a text node
RenderText(marks) ==
    /\ given = NoCall
    /\ given' = [called |-> "tiptap_to_markdown", node |-> MarkedText(TheText, marks)]
    /\ result' = [markdown |-> TiptapToMarkdown(MarkedText(TheText, marks), 0, NoNum)]
    /\ UNCHANGED syncVars

SomeRenderText ==
    /\ given = NoCall
    /\ \E marks \in MarkInputs : RenderText(marks)

NextMarks == SomeRenderText

SpecMarks == Init /\ [][NextMarks]_vars

\* tiptap_to_markdown is called on a list at the top level of a document
RenderList(tree) ==
    /\ given = NoCall
    /\ given' = [called |-> "tiptap_to_markdown", node |-> tree]
    /\ result' = [markdown |-> TiptapToMarkdown(tree, 0, NoNum)]
    /\ UNCHANGED syncVars

SomeRenderList ==
    /\ given = NoCall
    /\ \E tree \in ListTrees(MaxDepth) : RenderList(tree)

NextLists == SomeRenderList

SpecLists == Init /\ [][NextLists]_vars

\* ===================================================================
\* Properties.  Each is read in the state a run has just left (pc = "done"),
\* where prior holds what the run found and the other variables what it was
\* given and what it did.
\* ===================================================================
PriorEntries == LoadSyncState(prior.stateFile)
SavedEntries == LoadSyncState(stateFile)
Records == AllData(cache)
IsRecord(id) == InAllData(Records, id)
OpIndexes == 1..Len(ops)
IsDelete(o) == o.op \in {"remove_old", "remove_orphan"}
\* non-empty utterances are supplied for id
Supplied(id) == \E i \in 1..Len(transcripts) : transcripts[i].id = id /\ transcripts[i].utt > 0
TranscriptWritten(id) == \E k \in OpIndexes : ops[k].op = "write_transcript" /\ ops[k].id = id
HadTranscript(id) == HasKey(PriorEntries, id) /\ Lookup(PriorEntries, id).transcript_saved
IsTombstone(e) == e.transcript_saved /\ e.filename = NoName /\ e.updated_at = NoVersion

\* C1 (idempotence of sync): when a non-dry, non-force run is followed by a
\* second non-dry, non-force run over the same cache, the second run performs
\* no file write and no file delete, raises nothing, and leaves the state file
\* as the first run left it.
C1_Idempotence ==
    (pc = "done" /\ repeat /\ ~force /\ ~first.dry_run)
        => (ops = <<>> /\ error = "none" /\ stateFile = prior.stateFile)

\* C2 (transcript-once): in a non-force run, a record of the current cache
\* whose prior state entry has transcript_saved and for which non-empty
\* utterances are supplied gets no transcript write, whether its version
\* token is unchanged or changed.
C2_TranscriptOnce ==
    (pc = "done" /\ ~force)
        => \A id \in Ids :
              (IsRecord(id) /\ HadTranscript(id) /\ Supplied(id)) => ~TranscriptWritten(id)

\* C3 (orphan with transcript): in a run that is not a dry run, an id whose
\* prior state entry has transcript_saved and that is absent from the current
\* records has its notes file deleted and a tombstone holding transcript_saved
\* and the transcript filename kept in the new state; and no delete of any run
\* targets a transcript file.
C3_OrphanWithTranscript ==
    (pc = "done" /\ ~dry_run)
        => /\ \A id \in Ids :
                (HadTranscript(id) /\ ~IsRecord(id)) =>
                    LET prev == Lookup(PriorEntries, id)
                    IN /\ prev.filename # NoName =>
                            \E k \in OpIndexes : ops[k] = Op("remove_orphan", prev.filename, id)
                       /\ HasKey(SavedEntries, id)
                       /\ Lookup(SavedEntries, id) = Tombstone(prev)
                       /\ \A k \in OpIndexes :
                            IsDelete(ops[k]) => ops[k].name # prev.transcript_filename
           /\ \A k \in OpIndexes : IsDelete(ops[k]) => ops[k].name.kind # "transcript"

\* C4 (a tombstone survives future runs): a non-force run that finds a
\* tombstone for an id absent from the current records raises nothing, makes
\* no delete on account of that entry and keeps the tombstone in the state.
C4_TombstoneSurvives ==
    (pc = "done" /\ ~force)
        => \A id \in Ids :
              (HasKey(PriorEntries, id) /\ IsTombstone(Lookup(PriorEntries, id)) /\ ~IsRecord(id))
                  => /\ error = "none"
                     /\ ~\E k \in OpIndexes : IsDelete(ops[k]) /\ ops[k].id = id
                     /\ HasKey(SavedEntries, id)
                     /\ Lookup(SavedEntries, id) = Lookup(PriorEntries, id)

\* C5 (transcript dedup is independent of force): in a run with --force, a
\* record whose persisted prior entry has transcript_saved and for which
\* utterances are supplied gets no transcript write, and after a run that
\* saves the state its entry still has transcript_saved.
C5_DedupUnderForce ==
    (pc = "done" /\ force)
        => \A id \in Ids :
              (IsRecord(id) /\ HadTranscript(id) /\ Supplied(id))
                  => /\ ~TranscriptWritten(id)
                     /\ (~dry_run /\ error = "none")
                            => (HasKey(SavedEntries, id) /\ Lookup(SavedEntries, id).transcript_saved)

\* some other record of the run has the base name of record i
SharesBase(i) ==
    \E j \in 1..Len(Records) : j # i /\ Slugify(Records[j].title) = Slugify(Records[i].title)

\* C6 (symmetric filename collision resolution): a record gets
\* "{base}_{id[:8]}.md" exactly when another record of the run has its base
\* name and "{base}.md" exactly when none has, the first record met with a
\* shared base name included, whatever the order of the records.
C6_SymmetricCollision ==
    pc = "done"
        => \A i \in 1..Len(Records) :
              FilenameOf(filenames, Records[i].id) =
                  IF SharesBase(i)
                  THEN SuffixedFilename(Records[i].title, Records[i].id)
                  ELSE OrigFilename(Records[i].title)

\* a run met two records with one base name and suffixed the first of them
C6_Witness ==
    /\ pc = "done"
    /\ Len(Records) = 2
    /\ SharesBase(1)
    /\ FilenameOf(filenames, Records[1].id) = SuffixedFilename(Records[1].title, Records[1].id)

\* C7 (rename cleanup): in a run that is not a dry run, a record on the
\* new-or-changed path whose prior entry records another filename than the
\* one newly assigned has the old file deleted and then the new file written,
\* and the state after the run records the new filename and version token.
C7_RenameCleanup ==
    (pc = "done" /\ ~dry_run)
        => \A i \in 1..Len(Records) :
              LET doc == Records[i]
                  prev == Get(PriorEntries, doc.id)
                  new == FilenameOf(filenames, doc.id)
              IN (/\ force \/ prev.updated_at # doc.updated_at
                  /\ prev.filename # NoName
                  /\ prev.filename # new)
                 => /\ \E k, l \in OpIndexes :
                          /\ k < l
                          /\ ops[k] = Op("remove_old", prev.filename, doc.id)
                          /\ ops[l] = Op("write", new, doc.id)
                    /\ HasKey(SavedEntries, doc.id)
                    /\ Lookup(SavedEntries, doc.id).filename = new
                    /\ Lookup(SavedEntries, doc.id).updated_at = doc.updated_at

\* the ids with a prior entry that records a notes filename and no current record
Orphans ==
    {id \in Ids : /\ HasKey(PriorEntries, id)
                  /\ Lookup(PriorEntries, id).filename # NoName
                  /\ ~IsRecord(id)}

\* C8 (orphan removal): in a non-dry, non-force run every id with a prior
\* entry recording a notes filename and without a current record (missing,
\* deleted or trashed) gets one delete of that filename, is counted once in
\* removed, and has no entry in the new state unless it had transcript_saved.
C8_OrphanRemoval ==
    (pc = "done" /\ ~dry_run /\ ~force)
        => /\ \A id \in Orphans :
                LET prev == Lookup(PriorEntries, id)
                IN /\ Cardinality({k \in OpIndexes :
                                      ops[k] = Op("remove_orphan", prev.filename, id)}) = 1
                   /\ ~prev.transcript_saved => ~HasKey(SavedEntries, id)
           /\ summary.removed = Cardinality(Orphans)

\* C9 (a dry run changes nothing): a run with --dry-run leaves every notes
\* file, every transcript file and the state file as it found them and
\* performs no file operation, whatever the cache, the prior state and --force.
C9_DryRunChangesNothing ==
    (pc = "done" /\ dry_run)
        => (files = prior.files /\ stateFile = prior.stateFile /\ ops = <<>>)

\* a dry run that had a document to write, a transcript to save and an orphan
\* to remove
C9_Witness ==
    /\ pc = "done"
    /\ dry_run
    /\ error = "none"
    /\ \E i \in 1..Len(Records) :
          Get(PriorEntries, Records[i].id).updated_at # Records[i].updated_at
    /\ summary.transcripts_saved > 0
    /\ summary.removed > 0

\* C10 (a dry run reports what a real run would do): the counters a dry run
\* reports equal the counters of the run without --dry-run on the same cache,
\* prior state and --force.
C10_DryRunCounts ==
    (pc = "done" /\ repeat /\ first.dry_run /\ first.error = "none" /\ error = "none")
        => summary = first.summary

\* C11 (the state is committed last): in a run that is not a dry run, when a
\* notes write, a rename delete, a transcript write or an orphan delete
\* raises, the state file is exactly what it was before the run; so a run
\* that has written the state file is one in which every file operation
\* succeeded.
C11_StateCommittedLast ==
    (pc = "done" /\ ~dry_run /\ error # "none") => stateFile = prior.stateFile

\* a run wrote a notes file and removed an old one, then its orphan delete of
\* a notes file raised; the entries it had gathered differ from the saved ones
C11_Witness ==
    /\ pc = "done"
    /\ ~dry_run
    /\ error = "OSError"
    /\ Len(ops) >= 3
    /\ ops[Len(ops)].op = "remove_orphan"
    /\ ops[Len(ops)].name # DirName
    /\ files # prior.files
    /\ stateFile = prior.stateFile

\* C12 (the keys of the persisted state): after every run that is not a dry
\* run, every key of the state file is the id of a non-deleted record of the
\* current cache or belongs to an entry with transcript_saved.
C12_StateKeys ==
    (pc = "done" /\ ~dry_run)
        => \A i \in 1..Len(SavedEntries) :
              IsRecord(SavedEntries[i].id) \/ SavedEntries[i].transcript_saved

\* C13 (force still cleans up renames): in a run with --force that is not a
\* dry run, a record whose persisted prior entry records a notes file that
\* exists under another name than the one newly assigned has that file
\* deleted before the new one is written, and the old file is not in the
\* output directory after the run unless the run wrote it for another record.
C13_ForceRenameCleanup ==
    (pc = "done" /\ ~dry_run /\ force)
        => \A i \in 1..Len(Records) :
              LET doc == Records[i]
                  prev == Get(PriorEntries, doc.id)
                  new == FilenameOf(filenames, doc.id)
              IN (/\ prev.filename # NoName
                  /\ prev.filename # new
                  /\ Exists(prior.files, prev.filename))
                 => /\ \E k, l \in OpIndexes :
                          /\ k < l
                          /\ ops[k] = Op("remove_old", prev.filename, doc.id)
                          /\ ops[l] = Op("write", new, doc.id)
                    /\ Exists(files, prev.filename)
                          => \E k \in OpIndexes :
                                ops[k].op = "write" /\ ops[k].name = prev.filename

\* the ids of the records whose notes file the run wrote
Written == {id \in Ids : \E k \in OpIndexes : ops[k].op = "write" /\ ops[k].id = id}

\* C14 (counter classification): in every run that is not a dry run, with or
\* without --force, created + updated + unchanged is the number of
\* non-deleted records, created counts the written records whose id had no
\* entry in the persisted prior state and updated the written records whose
\* id had one.
C14_CounterClassification ==
    (pc = "done" /\ ~dry_run /\ error = "none")
        => /\ summary.created + summary.updated + summary.unchanged = Len(Records)
           /\ summary.created = Cardinality({id \in Written : ~HasKey(PriorEntries, id)})
           /\ summary.updated = Cardinality({id \in Written : HasKey(PriorEntries, id)})

Extracted == given.called = "extract_meeting_data"

\* C15 (title default): the extracted record's title is "Untitled Meeting"
\* whenever the document has no title or the empty string as title, and is
\* the document's title otherwise.
C15_TitleDefault ==
    Extracted
        => result.title = IF "title" \notin DOMAIN given.doc \/ given.doc.title = ""
                          THEN "Untitled Meeting"
                          ELSE given.doc.title

\* the panel exposes a rich-text tree
IsTree(panel) == "content" \in DOMAIN panel /\ "type" \in DOMAIN panel.content
TreePanels == {i \in 1..Len(given.panels) : IsTree(given.panels[i])}
FirstTreePanel == given.panels[CHOOSE i \in TreePanels : \A j \in TreePanels : i <= j]
\* the conversions of the raw markups of the panels
Conversions ==
    {HtmlToBasicMarkdown(given.panels[i].original_content) :
        i \in {j \in 1..Len(given.panels) : "original_content" \in DOMAIN given.panels[j]}}

\* C16 (summary panel selection): when some panel exposes a rich-text tree
\* the summary is the trimmed rendering of the first such panel, whatever
\* panels come before and after it; otherwise the summary is empty or the
\* conversion of the raw markup of a panel; without panels it is empty.
C16_SummaryPanel ==
    Extracted
        => /\ TreePanels # {}
                => result.summary = Strip(TiptapToMarkdown(FirstTreePanel.content, 0, NoNum))
           /\ TreePanels = {} => result.summary \in {<<>>} \cup Conversions
           /\ given.panels = <<>> => result.summary = <<>>

\* a panel with raw markup only, then two panels with trees that render
\* differently: the summary is the rendering of the first tree
C16_Witness ==
    /\ Extracted
    /\ Len(given.panels) = 3
    /\ ~IsTree(given.panels[1])
    /\ "original_content" \in DOMAIN given.panels[1]
    /\ HtmlToBasicMarkdown(given.panels[1].original_content) # <<>>
    /\ IsTree(given.panels[2])
    /\ IsTree(given.panels[3])
    /\ given.panels[2].content # given.panels[3].content
    /\ result.summary = <<"s">>

Rendered == given.called = "tiptap_to_markdown"

\* what one mark makes of the text x
Wrap(mark, x) ==
    CASE mark.type = "bold" -> <<"*", "*">> \o x \o <<"*", "*">>
      [] mark.type = "italic" -> <<"*">> \o x \o <<"*">>
      [] mark.type = "code" -> <<Backtick>> \o x \o <<Backtick>>
      [] mark.type = "link" ->
             <<"[">> \o x \o <<"]", "(">>
                 \o (IF "attrs" \in DOMAIN mark THEN mark.attrs.href ELSE <<>>) \o <<")">>

\* wrap(m_n)(... wrap(m_1)(text) ...)
RECURSIVE Wrapped(_, _, _)
Wrapped(text, marks, n) ==
    IF n = 0 THEN text ELSE Wrap(marks[n], Wrapped(text, marks, n - 1))

KnownMarks(marks) ==
    \A i \in 1..Len(marks) : marks[i].type \in {"bold", "italic", "code", "link"}

\* C17 (mark composition order): a text node with the marks m1..mn of the
\* four known types renders as wrap(mn)(...wrap(m1)(text)...); with
\* [bold, link(href="x")] "text" renders as [**text**](x), and with the two
\* marks in the other order it renders as something else.
C17_MarkOrder ==
    (Rendered /\ given.node.type = "text")
        => /\ KnownMarks(given.node.marks)
                => result.markdown =
                       Wrapped(given.node.text, given.node.marks, Len(given.node.marks))
           /\ given.node.marks = <<Bold, LinkTo(<<"x">>)>>
                => result.markdown =
                       <<"[", "*", "*", "t", "e", "x", "t", "*", "*", "]", "(", "x", ")">>
           /\ given.node.marks = <<LinkTo(<<"x">>), Bold>>
                => result.markdown #
                       <<"[", "*", "*", "t", "e", "x", "t", "*", "*", "]", "(", "x", ")">>

\* the text with the marks bold, then link, was rendered
C17_Witness ==
    /\ Rendered
    /\ given.node.type = "text"
    /\ given.node.marks = <<Bold, LinkTo(<<"x">>)>>
    /\ result.markdown = <<"[", "*", "*", "t", "e", "x", "t", "*", "*", "]", "(", "x", ")">>

\* the lines of str
RECURSIVE Lines(_)
Lines(str) ==
    IF \A i \in 1..Len(str) : str[i] # "\n"
    THEN <<str>>
    ELSE LET n == CHOOSE i \in 1..Len(str) :
                      str[i] = "\n" /\ \A j \in 1..(i - 1) : str[j] # "\n"
         IN <<SubSeq(str, 1, n - 1)>> \o Lines(SubSeq(str, n + 1, Len(str)))

\* the inline text of an item, trimmed (no text of the trees has a space
\* inside)
InlineText(item) ==
    SelectSeq(item.content[1].content[1].text, LAMBDA c : c \notin Whitespace)

NestedLists(item) == SelectSeq(item.content, IsList)

\* the lines the claim gives a list at depth d: for each item 2*d spaces, its
\* marker, a space and its text, followed by the lines of its nested lists
\* at depth d + 1
RECURSIVE ClaimedLines(_, _)
ClaimedLines(list, d) ==
    Concat([i \in 1..Len(list.content) |->
        LET item == list.content[i]
            spaces == [k \in 1..(2 * d) |-> " "]
            marker == IF list.type = "orderedList" THEN Decimal(i) \o <<".">> ELSE <<"-">>
            nested == NestedLists(item)
        IN <<spaces \o marker \o <<" ">> \o InlineText(item)>>
               \o Concat([k \in 1..Len(nested) |-> ClaimedLines(nested[k], d + 1)])])

\* C18 (nested list rendering): a tree of bullet and ordered lists nested in
\* list items renders as one line per item, in document order: the item at
\* depth d as 2*d spaces, then "N." (its 1-based position) in an ordered list
\* and "-" in a bullet list, then a space and its trimmed text, the lines of
\* a nested list right after the line of its item and one unit deeper.
C18_NestedLists ==
    (Rendered /\ IsList(given.node))
        => Lines(result.markdown) = ClaimedLines(given.node, 0)

\* a bullet list was rendered whose item carries an ordered list whose
\* second item carries a bullet list: lines at depth 0, 1 and 2
C18_Witness ==
    /\ Rendered
    /\ IsList(given.node)
    /\ given.node.type = "bulletList"
    /\ Lines(result.markdown)[1] = <<"-", " ", "b">>
    /\ \E i \in 2..(Len(Lines(result.markdown)) - 1) :
          /\ Lines(result.markdown)[i] = <<" ", " ", "2", ".", " ", "b">>
          /\ Lines(result.markdown)[i + 1] = <<" ", " ", " ", " ", "-", " ", "a">>

\* C19 (one transcript file per meeting): a transcript a run writes for a
\* record goes to another file than every transcript the run writes for a
\* record with another id, and than every transcript file the prior state
\* records as saved for another id.
C19_OneTranscriptFile ==
    pc = "done"
        => \A k \in OpIndexes :
              ops[k].op = "write_transcript"
                  => /\ \A l \in OpIndexes :
                          (ops[l].op = "write_transcript" /\ ops[l].id # ops[k].id)
                              => ops[l].name # ops[k].name
                     /\ \A i \in 1..Len(PriorEntries) :
                          (PriorEntries[i].transcript_saved /\ PriorEntries[i].id # ops[k].id)
                              => PriorEntries[i].transcript_filename # ops[k].name

\* C20 (state and files stay consistent): after a run that is not a dry run
\* and raised nothing, following any runs of that kind, the state entry of
\* every non-deleted record of the cache names a notes file that is in the
\* output directory; no rename or orphan cleanup has deleted a file that the
\* new state names for another id.
C20_StateNamesFiles ==
    (pc = "done" /\ ~dry_run /\ error = "none")
        => /\ \A i \in 1..Len(Records) :
                /\ HasKey(SavedEntries, Records[i].id)
                /\ Lookup(SavedEntries, Records[i].id).filename # NoName
                /\ Exists(files, Lookup(SavedEntries, Records[i].id).filename)
           /\ \A k \in OpIndexes :
                IsDelete(ops[k])
                    => \A i \in 1..Len(SavedEntries) :
                          (SavedEntries[i].id # ops[k].id /\ SavedEntries[i].filename = ops[k].name)
                              => \E l \in OpIndexes :
                                    l > k /\ ops[l] = Op("write", ops[k].name, SavedEntries[i].id)

\* C21 (transcript_saved is monotonic): after a run that is neither a dry
\* run nor a run with --force, every id whose persisted prior entry has
\* transcript_saved has a persisted entry with transcript_saved and the same
\* transcript filename, whether its record is unchanged, changed (with or
\* without utterances supplied) or gone from the cache.
C21_TranscriptSavedMonotonic ==
    (pc = "done" /\ ~dry_run /\ ~force)
        => \A id \in Ids :
              HadTranscript(id)
                  => /\ HasKey(SavedEntries, id)
                     /\ Lookup(SavedEntries, id).transcript_saved
                     /\ Lookup(SavedEntries, id).transcript_filename
                            = Lookup(PriorEntries, id).transcript_filename

====
